---------------------------- MODULE Spec2Model ----------------------------
(***************************************************************************)
(* Verification model of the CRC guidelines bot server.                    *)
(*                                                                         *)
(*   - the BM25 engine in its two variants, src/unnamed/part_000           *)
(*     (search/bm25.js, names ending in 0) and src/unnamed/part_001        *)
(*     (names ending in 1): tokenize, buildIndex, searchTop;               *)
(*   - the request handlers of src/server.js over index.json / bm25.json.  *)
(*                                                                         *)
(* Strings are sequences of UTF-16 code units (integers).  JavaScript      *)
(* numbers that the code divides are exact rationals [n, d]; a score is a  *)
(* fixed-point number (unit 1/Scale) or NaN.                               *)
(***************************************************************************)
EXTENDS Integers, Sequences, FiniteSets, TLC

VARIABLES
    engine,     \* which variant of search/bm25.js is deployed: 0 or 1
    pc,         \* position of the run of the pure-function specifications
    tokIn,      \* argument of tokenize
    tokOut,     \* value tokenize returned
    chunks,     \* argument of buildIndex: the passage list
    model,      \* value buildIndex returned
    query,      \* argument of searchTop
    topK,       \* argument k of searchTop
    results,    \* value searchTop returned
    model2,     \* value a second buildIndex on the same passage list returned
    results2,   \* value searchTop returned on the model read back from bm25.json
    idxFile,    \* storage/index.json: [docs, chunks]
    bmFile,     \* storage/bm25.json: the model last written
    nextId,     \* the number of the next value uuidv4() returns as a sourceId
    inflight,   \* sourceIds of the uploads awaiting their text extraction
    askWait,    \* the /api/ask requests awaiting the LLM proxy (0 or 1)
    published,  \* sourceIds a response has given to a client
    deleted,    \* ids of the authorised deletes that have completed
    last,       \* the request handled last: [op, status, hits, answer]; answer is the
                \* answer of an ask, <<removedDocs, removedChunks>> of a delete,
                \* the kind of text extracted for an upload
    gate,       \* the score under which /api/ask answers with the fallback
    lastAuth,   \* whether the request handled last carried x-admin-secret = ADMIN_SECRET
    unauth      \* sourceIds of the uploads in flight that came without the admin secret

\* the variables of the pure-function specifications
pureVars == <<pc, tokIn, tokOut, chunks, model, query, topK, results, model2, results2>>

\* the variables of the server
srvVars == <<idxFile, bmFile, nextId, inflight, askWait, published, deleted, last,
            gate, lastAuth, unauth>>

vars == <<engine, pureVars, srvVars>>

Engines == {0, 1}

(***************************************************************************)
(* Generic helpers on sequences.                                           *)
(***************************************************************************)
RECURSIVE Flatten(_)
Flatten(ss) == IF ss = <<>> THEN <<>> ELSE Head(ss) \o Flatten(Tail(ss))

\* all sequences over S of length at most n
SeqsUpTo(S, n) == UNION {[1..m -> S] : m \in 0..n}

Range(s) == {s[i] : i \in DOMAIN s}

(***************************************************************************)
(* Characters.                                                             *)
(***************************************************************************)
IsAsciiLower(c) == c \in 97..122
IsAsciiUpper(c) == c \in 65..90
IsAsciiDigit(c) == c \in 48..57
\* 一-鿿
IsCJK(c)        == c \in 19968..40959
\* À-ɏ
IsLatinExt(c)   == c \in 192..591
\* the characters \s matches
IsWhiteSpace(c) ==
    c \in {9, 10, 11, 12, 13, 32, 160, 5760, 8232, 8233, 8239, 8287, 12288, 65279}
    \/ c \in 8192..8202

\* String.prototype.toLowerCase on one code unit, for the characters of
\* Alphabet: ASCII and Latin-1 capitals move by 32, U+0130 becomes "i" plus
\* U+0307, the Kelvin sign U+212A becomes "k"; everything else is unchanged.
LowerOfChar(c) ==
    IF IsAsciiUpper(c) THEN <<c + 32>>
    ELSE IF c \in 192..222 /\ c # 215 THEN <<c + 32>>
    ELSE IF c = 304 THEN <<105, 775>>
    ELSE IF c = 8490 THEN <<107>>
    ELSE <<c>>

toLowerCase(s) == Flatten([i \in DOMAIN s |-> LowerOfChar(s[i])])

\* Canonicalize of a case-insensitive regular expression without the u flag:
\* the upper-case form, unless that maps a non-ASCII character into ASCII.
Canonicalize(c) ==
    IF IsAsciiLower(c) THEN c - 32
    ELSE IF c \in 224..254 /\ c # 247 THEN c - 32
    ELSE c

\* [a-z0-9一-鿿] under the flags gi
InClass0(c) ==
    LET u == Canonicalize(c)
    IN  IsAsciiUpper(u) \/ IsAsciiDigit(u) \/ IsCJK(u)

\* [a-z0-9À-ɏ一-鿿] under the flag g
InClass1(c) == IsAsciiLower(c) \/ IsAsciiDigit(c) \/ IsLatinExt(c) \/ IsCJK(c)

\* the character class of the variant's tokenizer
InClass(e, c) == IF e = 0 THEN InClass0(c) ELSE InClass1(c)

RECURSIVE ReplaceRuns(_, _, _)
\* s.replace(/[^class]+/g, ' '): every maximal run of characters outside the
\* class becomes one space.  inRun: the previous character was replaced.
ReplaceRuns(s, e, inRun) ==
    IF s = <<>> THEN <<>>
    ELSE IF InClass(e, Head(s)) THEN <<Head(s)>> \o ReplaceRuns(Tail(s), e, FALSE)
    ELSE (IF inRun THEN <<>> ELSE <<32>>) \o ReplaceRuns(Tail(s), e, TRUE)

RECURSIVE SplitWs(_, _, _)
\* s.split(/\s+/): the pieces between the maximal runs of white space; a run at
\* either end leaves an empty piece there, and "" splits into [""].
\* cur: the piece being read; inSep: the previous character was white space.
SplitWs(s, cur, inSep) ==
    IF s = <<>> THEN <<cur>>
    ELSE IF IsWhiteSpace(Head(s))
         THEN (IF inSep THEN <<>> ELSE <<cur>>) \o SplitWs(Tail(s), <<>>, TRUE)
         ELSE SplitWs(Tail(s), Append(cur, Head(s)), FALSE)

split(s) == SplitWs(s, <<>>, FALSE)

\* .filter(Boolean) with the filter left out
filterBooleanMutant(pieces) == pieces

\* .filter(Boolean) on strings: the empty string is falsy
filterBoolean(pieces) == SelectSeq(pieces, LAMBDA t : t # <<>>)

tokenize0(str) ==
    filterBoolean(split(ReplaceRuns(toLowerCase(str), 0, FALSE)))

tokenize1(s) ==
    filterBoolean(split(ReplaceRuns(toLowerCase(s), 1, FALSE)))

tokenize(e, s) == IF e = 0 THEN tokenize0(s) ELSE tokenize1(s)

(***************************************************************************)
(* JavaScript values held in the index objects, and property reads.        *)
(*   num: the number n;  fun: the function Object that every plain object  *)
(*   inherits as "constructor";  str: the text of that function followed   *)
(*   by n digits "1";  undef: undefined.                                   *)
(***************************************************************************)
Num(n)    == [t |-> "num", n |-> n]
ObjectFn  == [t |-> "fun", n |-> 0]
FnStr(n)  == [t |-> "str", n |-> n]
Undefined == [t |-> "undef", n |-> 0]

\* the word "constructor"
Ctor == <<99, 111, 110, 115, 116, 114, 117, 99, 116, 111, 114>>

\* {} : a plain object without own properties
EmptyObj == [x \in {} |-> Undefined]

\* obj[key] on a plain object: an own property, else what Object.prototype
\* gives.  Of the names Object.prototype defines, "constructor" is the only
\* one made of lower-case letters alone.
Get(obj, key) ==
    IF key \in DOMAIN obj THEN obj[key]
    ELSE IF key = Ctor THEN ObjectFn
    ELSE Undefined

\* map.get(key) on a Map: no inherited entries
MapGet(map, key) == IF key \in DOMAIN map THEN map[key] ELSE Undefined

\* obj[key] = val, map.set(key, val)
Put(obj, key, val) ==
    [x \in (DOMAIN obj) \cup {key} |-> IF x = key THEN val ELSE obj[x]]

Truthy(v) ==
    CASE v.t = "num"   -> v.n # 0
      [] v.t = "str"   -> TRUE
      [] v.t = "fun"   -> TRUE
      [] v.t = "undef" -> FALSE

\* v || 0
OrZero(v) == IF Truthy(v) THEN v ELSE Num(0)

\* v + 1, for v a number, the function Object or a string
Plus1(v) ==
    CASE v.t = "num" -> Num(v.n + 1)
      [] v.t = "fun" -> FnStr(1)
      [] v.t = "str" -> FnStr(v.n + 1)

(***************************************************************************)
(* Numbers: exact rationals, and fixed-point scores.                       *)
(***************************************************************************)
RECURSIVE GCD(_, _)
GCD(a, b) == IF b = 0 THEN a ELSE GCD(b, a % b)

Abs(x) == IF x < 0 THEN -x ELSE x

\* the rational n/d in lowest terms, d > 0
Rat(n, d) ==
    LET g == GCD(Abs(n), Abs(d))
        sg == IF d < 0 THEN -1 ELSE 1
    IN  [n |-> sg * (n \div g), d |-> sg * (d \div g)]

RInt(n)    == [n |-> n, d |-> 1]
RAdd(x, y) == Rat(x.n * y.d + y.n * x.d, x.d * y.d)
RSub(x, y) == Rat(x.n * y.d - y.n * x.d, x.d * y.d)
RMul(x, y) == Rat(x.n * y.n, x.d * y.d)
RDiv(x, y) == Rat(x.n * y.d, x.d * y.n)
RHalf      == Rat(1, 2)

\* resolution of a score: one unit is 1/Scale
Scale == 10000

NaN    == [nan |-> TRUE, v |-> 0]
Fix(v) == [nan |-> FALSE, v |-> v]

\* score += x
AddScore(a, x) == IF a.nan \/ x.nan THEN NaN ELSE Fix(a.v + x.v)

RECURSIVE AtanhSum(_, _, _, _)
\* sum over j of pw * (a2/b2)^j / (2j+1), in fixed point
AtanhSum(pw, a2, b2, j) ==
    IF pw = 0 THEN 0
    ELSE pw \div (2 * j + 1) + AtanhSum((pw * a2) \div b2, a2, b2, j + 1)

\* Scale * ln(p/q) for p >= q > 0, as 2 * atanh((p-q)/(p+q))
LnPos(p, q) ==
    2 * AtanhSum((Scale * (p - q)) \div (p + q),
                 (p - q) * (p - q), (p + q) * (p + q), 0)

\* Math.log of a positive rational, in fixed point
MathLog(x) == IF x.n >= x.d THEN LnPos(x.n, x.d) ELSE -LnPos(x.d, x.n)

\* BM25 params
k1 == Rat(3, 2)
b  == Rat(3, 4)

\* avgdl || 1
AvgdlOr1(avgdl) == IF avgdl.n = 0 THEN RInt(1) ELSE avgdl

\* What one query term adds to a document's score:
\*   idf   = Math.log(((N - n + 0.5) / (n + 0.5)) + 1)
\*   denom = f + k1 * (1 - b + b * (len / (avgdl || 1)))
\*   idf * ((f * (k1 + 1)) / denom)
\* nq and fq are the values read from df and from the document's counts.  A
\* value that is not a number makes N - n, or f * (k1 + 1), NaN.
TermScore(N, avgdl, nq, fq, len) ==
    IF nq.t # "num" \/ fq.t # "num" THEN NaN
    ELSE
      LET n     == RInt(nq.n)
          f     == RInt(fq.n)
          idf   == MathLog(RAdd(RDiv(RAdd(RSub(RInt(N), n), RHalf),
                                     RAdd(n, RHalf)),
                                RInt(1)))
          denom == RAdd(f, RMul(k1, RAdd(RSub(RInt(1), b),
                                         RMul(b, RDiv(RInt(len), AvgdlOr1(avgdl))))))
          w     == RDiv(RMul(f, RAdd(k1, RInt(1))), denom)
      IN  Fix((idf * w.n) \div w.d)

(***************************************************************************)
(* search/bm25.js, variant src/unnamed/part_000.                           *)
(***************************************************************************)
RECURSIVE CountTokens0(_, _)
\* tokens.forEach(t => { freq[t] = (freq[t] || 0) + 1; })
CountTokens0(tokens, freq) ==
    IF tokens = <<>> THEN freq
    ELSE CountTokens0(Tail(tokens),
                      Put(freq, Head(tokens), Plus1(OrZero(Get(freq, Head(tokens))))))

RECURSIVE DfAddTerms0(_, _)
\* for (const term in doc.freq) df[term] = (df[term] || 0) + 1
DfAddTerms0(df, terms) ==
    IF terms = {} THEN df
    ELSE LET term == CHOOSE x \in terms : TRUE
         IN  DfAddTerms0(Put(df, term, Plus1(OrZero(Get(df, term)))), terms \ {term})

RECURSIVE DfOfDocs0(_, _)
\* docs.forEach(doc => ...)
DfOfDocs0(docs, df) ==
    IF docs = <<>> THEN df
    ELSE DfOfDocs0(Tail(docs), DfAddTerms0(df, DOMAIN Head(docs).freq))

RECURSIVE SumLen(_)
\* docs.reduce((sum, d) => sum + d.len, 0)
SumLen(docs) == IF docs = <<>> THEN 0 ELSE Head(docs).len + SumLen(Tail(docs))

\* const avgdl = N > 0 ? total / N : 0, dividing by N + 1 instead
Avgdl0Mutant(docs) ==
    IF Len(docs) > 0 THEN Rat(SumLen(docs), Len(docs) + 1) ELSE RInt(0)

\* docs.reduce(...) / N without the test N > 0: 0 / 0 is NaN, written 0/0
Avgdl0Unguarded(docs) ==
    IF Len(docs) = 0 THEN [n |-> 0, d |-> 0] ELSE Rat(SumLen(docs), Len(docs))

\* const avgdl = N > 0 ? docs.reduce(...) / N : 0
Avgdl0(docs) ==
    IF Len(docs) > 0 THEN Rat(SumLen(docs), Len(docs)) ELSE RInt(0)

buildIndex0(cs) ==
    LET docs == [i \in DOMAIN cs |->
                    LET tokens == tokenize0(cs[i].text)
                    IN  [id       |-> cs[i].id,
                         sourceId |-> cs[i].sourceId,
                         text     |-> cs[i].text,
                         freq     |-> CountTokens0(tokens, EmptyObj),
                         len      |-> Len(tokens)]]
    IN  [docs  |-> docs,
         df    |-> DfOfDocs0(docs, EmptyObj),
         N     |-> Len(docs),
         avgdl |-> Avgdl0(docs)]

RECURSIVE bm25Score0(_, _, _, _, _)
\* the loop of bm25Score over qTokens, from the score and the seen set so far
bm25Score0(m, doc, qTokens, seen, score) ==
    IF qTokens = <<>> THEN score
    ELSE
      LET term == Head(qTokens)
          n_qi == OrZero(Get(m.df, term))
          f_qi == OrZero(Get(doc.freq, term))
      IN  IF term \in seen THEN bm25Score0(m, doc, Tail(qTokens), seen, score)
          ELSE IF ~Truthy(n_qi) \/ ~Truthy(f_qi)
               THEN bm25Score0(m, doc, Tail(qTokens), seen \cup {term}, score)
          ELSE bm25Score0(m, doc, Tail(qTokens), seen \cup {term},
                          AddScore(score, TermScore(m.N, m.avgdl, n_qi, f_qi, doc.len)))

\* (a, b) => b.score - a.score; a NaN result counts as 0
CompareScore(x, y) ==
    IF x.score.nan \/ y.score.nan THEN 0 ELSE y.score.v - x.score.v

\* x goes in front of the elements the comparator holds equal to x
InsertSortedMutant(sorted, x) ==
    LET p == Cardinality({i \in DOMAIN sorted : CompareScore(sorted[i], x) < 0})
    IN  SubSeq(sorted, 1, p) \o <<x>> \o SubSeq(sorted, p + 1, Len(sorted))

\* x goes behind every element the comparator does not put behind x
InsertSorted(sorted, x) ==
    LET p == Cardinality({i \in DOMAIN sorted : CompareScore(sorted[i], x) <= 0})
    IN  SubSeq(sorted, 1, p) \o <<x>> \o SubSeq(sorted, p + 1, Len(sorted))

RECURSIVE SortFrom(_, _)
SortFrom(rest, sorted) ==
    IF rest = <<>> THEN sorted
    ELSE SortFrom(Tail(rest), InsertSorted(sorted, Head(rest)))

\* Array.prototype.sort with the comparator above: stable
sortByScore(scored) == SortFrom(scored, <<>>)

\* arr.slice(0, k), k >= 0
slice(arr, k) == SubSeq(arr, 1, IF k < Len(arr) THEN k ELSE Len(arr))

searchTop0(m, q, k) ==
    IF m.docs = <<>> THEN <<>>
    ELSE
      LET qTokens == tokenize0(q)
          scored  == [i \in DOMAIN m.docs |->
                        [sourceId |-> m.docs[i].sourceId,
                         text     |-> m.docs[i].text,
                         score    |-> bm25Score0(m, m.docs[i], qTokens, {}, Fix(0))]]
      IN  slice(sortByScore(scored), k)

(***************************************************************************)
(* search/bm25.js, variant src/unnamed/part_001.                           *)
(***************************************************************************)
RECURSIVE CountTokens1(_, _)
\* tokens.forEach(t => map.set(t, (map.get(t)||0)+1))
CountTokens1(tokens, map) ==
    IF tokens = <<>> THEN map
    ELSE CountTokens1(Tail(tokens),
                      Put(map, Head(tokens), Plus1(OrZero(MapGet(map, Head(tokens))))))

RECURSIVE DfAddTerms1(_, _)
\* for (const t of new Set(tokens)) df.set(t, (df.get(t)||0)+1)
DfAddTerms1(df, terms) ==
    IF terms = {} THEN df
    ELSE LET t == CHOOSE x \in terms : TRUE
         IN  DfAddTerms1(Put(df, t, Plus1(OrZero(MapGet(df, t)))), terms \ {t})

RECURSIVE DfOfCorpus1(_, _)
DfOfCorpus1(corpus, df) ==
    IF corpus = <<>> THEN df
    ELSE DfOfCorpus1(Tail(corpus), DfAddTerms1(df, Range(Head(corpus))))

RECURSIVE SumTokens(_)
\* corpus.reduce((a,toks)=>a+toks.length,0)
SumTokens(corpus) ==
    IF corpus = <<>> THEN 0 ELSE Len(Head(corpus)) + SumTokens(Tail(corpus))

\* Math.max(1,N)
Max1(n) == IF n > 1 THEN n ELSE 1

\* const avgdl = corpus.reduce(...) / Math.max(1,N)
Avgdl1(corpus) == Rat(SumTokens(corpus), Max1(Len(corpus)))

buildIndex1(cs) ==
    LET docs   == [i \in DOMAIN cs |->
                     [id |-> i - 1, sourceId |-> cs[i].sourceId, text |-> cs[i].text]]
        corpus == [i \in DOMAIN docs |-> tokenize1(docs[i].text)]
    IN  [docs  |-> docs,
         df    |-> DfOfCorpus1(corpus, EmptyObj),
         tf    |-> [i \in DOMAIN corpus |-> CountTokens1(corpus[i], EmptyObj)],
         N     |-> Len(docs),
         avgdl |-> Avgdl1(corpus)]

\* Array.from(new Set(arr)) without the Set: repeated elements stay
DistinctMutant(arr, seen) == arr

RECURSIVE Distinct(_, _)
\* Array.from(new Set(arr)): the first occurrence of each element, in order
Distinct(arr, seen) ==
    IF arr = <<>> THEN <<>>
    ELSE IF Head(arr) \in seen THEN Distinct(Tail(arr), seen)
    ELSE <<Head(arr)>> \o Distinct(Tail(arr), seen \cup {Head(arr)})

\* the query terms of part_001: lower-cased and split on white space only
qterms1(q) == Distinct(filterBoolean(split(toLowerCase(q))), {})

RECURSIVE SumValues(_, _)
\* Object.values(tfDoc).reduce((a,b)=>a+b,0)
SumValues(obj, keys) ==
    IF keys = {} THEN 0
    ELSE LET x == CHOOSE y \in keys : TRUE
         IN  obj[x].n + SumValues(obj, keys \ {x})

RECURSIVE score1(_, _, _, _, _)
\* the loop over qterms for one document, from the score so far
score1(m, tfDoc, dl, qterms, score) ==
    IF qterms = <<>> THEN score
    ELSE
      LET t   == Head(qterms)
          ni  == OrZero(Get(m.df, t))
          fii == OrZero(Get(tfDoc, t))
      IN  IF ~Truthy(ni) THEN score1(m, tfDoc, dl, Tail(qterms), score)
          ELSE score1(m, tfDoc, dl, Tail(qterms),
                      AddScore(score, TermScore(m.N, m.avgdl, ni, fii, dl)))

\* if (score > 0)
Positive(score) == ~score.nan /\ score.v > 0

searchTop1(m, q, k) ==
    LET qterms == qterms1(q)
        scored == [i \in DOMAIN m.docs |->
                     [id       |-> i - 1,
                      sourceId |-> m.docs[i].sourceId,
                      score    |-> score1(m, m.tf[i], SumValues(m.tf[i], DOMAIN m.tf[i]),
                                          qterms, Fix(0)),
                      text     |-> m.docs[i].text]]
        pushed == SelectSeq(scored, LAMBDA r : Positive(r.score))
    IN  slice(sortByScore(pushed), k)

\* buildIndex with a count that outlives the call: from the second call on,
\* N counts the passages of the call before too
buildIndexMutant(e, cs) ==
    LET m == IF e = 0 THEN buildIndex0(cs) ELSE buildIndex1(cs)
    IN  IF pc = "start" THEN m ELSE [m EXCEPT !.N = m.N + Len(cs)]

buildIndex(e, cs) == IF e = 0 THEN buildIndex0(cs) ELSE buildIndex1(cs)

searchTop(e, m, q, k) == IF e = 0 THEN searchTop0(m, q, k) ELSE searchTop1(m, q, k)

(***************************************************************************)
(* Specification of the tokenizer alone.                                   *)
(***************************************************************************)
MaxTextLen == 3

\* a, B, 1, space, tab, ?, e-acute, E-acute, I with dot above, the Kelvin sign,
\* and the CJK ideograph U+4E2D
Alphabet == {97, 66, 49, 32, 9, 63, 233, 201, 304, 8490, 20013}

\* the server's variables while a pure function is studied alone
SrvIdle ==
    /\ idxFile = <<>>
    /\ bmFile = <<>>
    /\ nextId = 1
    /\ inflight = {}
    /\ askWait = 0
    /\ published = {}
    /\ deleted = {}
    /\ last = <<>>
    /\ gate = <<>>
    /\ lastAuth = FALSE
    /\ unauth = {}

TokInit ==
    /\ engine \in Engines
    /\ SrvIdle
    /\ pc = "start"
    /\ tokIn \in SeqsUpTo(Alphabet, MaxTextLen)
    /\ tokOut = <<>>
    /\ chunks = <<>>
    /\ model = <<>>
    /\ query = <<>>
    /\ topK = 0
    /\ results = <<>>
    /\ model2 = <<>>
    /\ results2 = <<>>

Tokenize ==
    /\ pc = "start"
    /\ tokOut' = tokenize(engine, tokIn)
    /\ pc' = "tokenized"
    /\ UNCHANGED <<engine, tokIn, chunks, model, query, topK, results, model2, results2, srvVars>>

TokNext == Tokenize

SpecTok == TokInit /\ [][TokNext]_vars

(***************************************************************************)
(* Specification of the engine: buildIndex, then searchTop, on bounded     *)
(* passage lists and queries.                                              *)
(***************************************************************************)
MaxDocs   == 2
MaxTokens == 3
MaxK      == 2

W_a == <<97>>
W_b == <<98>>
Words == {W_a, W_b, Ctor}

RECURSIVE JoinWords(_)
\* the words separated by single spaces
JoinWords(ws) ==
    IF ws = <<>> THEN <<>>
    ELSE IF Len(ws) = 1 THEN Head(ws)
    ELSE Head(ws) \o <<32>> \o JoinWords(Tail(ws))

RECURSIVE TotalLen(_)
TotalLen(ss) == IF ss = <<>> THEN 0 ELSE Len(Head(ss)) + TotalLen(Tail(ss))

RECURSIVE WordLists(_, _)
\* the lists of at most nd word lists holding at most nt words in all
WordLists(nd, nt) ==
    {<<>>} \cup
    (IF nd = 0 THEN {}
     ELSE UNION {{<<ws>> \o rest : rest \in WordLists(nd - 1, nt - Len(ws))} :
                    ws \in SeqsUpTo(Words, nt)})

\* the passages "e-acute a" and "a": a letter of U+00C0..U+024F is a
\* separator for part_000 and a token character for part_001
LatinPassages ==
    << [id |-> 1, sourceId |-> 1, text |-> <<233, 32, 97>>],
       [id |-> 2, sourceId |-> 2, text |-> <<97>>] >>

\* passage lists of at most MaxDocs passages and MaxTokens words in all, and
\* the list above
Corpora ==
    {[i \in DOMAIN wls |-> [id |-> i, sourceId |-> i, text |-> JoinWords(wls[i])]] :
        wls \in WordLists(MaxDocs, MaxTokens)}
    \cup {LatinPassages}

\* "", " ", "a", "b", "a b", "constructor", "a constructor", "A?", "a,b"
QueryPool ==
    { <<>>, <<32>>, W_a, W_b, JoinWords(<<W_a, W_b>>), Ctor,
      JoinWords(<<W_a, Ctor>>), <<65, 63>>, <<97, 44, 98>> }

EngInit ==
    /\ engine \in Engines
    /\ SrvIdle
    /\ pc = "start"
    /\ chunks \in Corpora
    /\ model = <<>>
    /\ query = <<>>
    /\ topK = 0
    /\ results = <<>>
    /\ model2 = <<>>
    /\ results2 = <<>>
    /\ tokIn = <<>>
    /\ tokOut = <<>>

BuildIndex ==
    /\ pc = "start"
    /\ model' = buildIndex(engine, chunks)
    /\ pc' = "built"
    /\ UNCHANGED <<engine, tokIn, tokOut, chunks, query, topK, results, model2, results2,
                 srvVars>>

SearchTop ==
    /\ pc = "built"
    /\ \E q \in QueryPool, k \in 0..MaxK :
          /\ query' = q
          /\ topK' = k
          /\ results' = searchTop(engine, model, q, k)
    /\ pc' = "searched"
    /\ UNCHANGED <<engine, tokIn, tokOut, chunks, model, model2, results2, srvVars>>

EngNext == BuildIndex \/ SearchTop

SpecEngine == EngInit /\ [][EngNext]_vars

(***************************************************************************)
(* What the claims speak about, stated independently of the code above.    *)
(***************************************************************************)
\* the terms of passage i of the list given to buildIndex
DocTerms(i) == Range(tokenize(engine, chunks[i].text))

\* the number of passages whose tokenized text contains t
DocCount(t) == Cardinality({i \in DOMAIN chunks : t \in DocTerms(i)})

\* every term a passage or a pool query can hold
AllTerms ==
    Words \cup UNION {Range(tokenize0(q)) \cup Range(qterms1(q)) : q \in QueryPool}

\* the number of tokens of all passages together
TokenTotal ==
    LET toks == [i \in DOMAIN chunks |-> tokenize(engine, chunks[i].text)]
    IN  TotalLen(toks)

Built == pc \in {"built", "searched"}

\* the terms the variant takes from a query
QueryTerms(q) == IF engine = 0 THEN Range(tokenize0(q)) ELSE Range(qterms1(q))

\* a result without the fields only one variant returns
Triple(r) == [sourceId |-> r.sourceId, text |-> r.text, score |-> r.score]

Triples(rs) == [i \in DOMAIN rs |-> Triple(rs[i])]

Min(x, y) == IF x < y THEN x ELSE y

(***************************************************************************)
(* C1: for every passage list and every term t, df[t] of the model         *)
(* buildIndex returns is the number of passages whose tokenized text       *)
(* contains t, and a term no passage contains has no entry.                *)
(***************************************************************************)
C1_DfCountsDocuments ==
    Built =>
      \A t \in AllTerms :
         IF DocCount(t) = 0 THEN t \notin DOMAIN model.df
         ELSE t \in DOMAIN model.df /\ model.df[t] = Num(DocCount(t))

(***************************************************************************)
(* C2: the model has N equal to the number of passages and avgdl equal to  *)
(* the sum of all document token counts divided by N, and avgdl 0 when N   *)
(* is 0.                                                                   *)
(***************************************************************************)
C2_NAndAvgdl ==
    Built =>
      /\ model.N = Len(chunks)
      /\ IF Len(chunks) = 0 THEN model.avgdl.n = 0
         ELSE model.avgdl.n * Len(chunks) = TokenTotal * model.avgdl.d

\* a model of two passages of different lengths: the mean is no integer
C2_Witness == Built /\ model.N = 2 /\ model.avgdl.d = 2

(***************************************************************************)
(* C3: searchTop returns at most k results, and each result's score is     *)
(* less than or equal to the score of the result before it.                *)
(***************************************************************************)
C3_AtMostKNonIncreasing ==
    pc = "searched" =>
      /\ Len(results) <= topK
      /\ \A i \in 2..Len(results) :
            /\ ~results[i].score.nan
            /\ ~results[i - 1].score.nan
            /\ results[i].score.v <= results[i - 1].score.v

(***************************************************************************)
(* C4: for a non-empty model and a query all of whose terms occur in no    *)
(* passage (an empty or white-space query included), searchTop returns     *)
(* the first min(k, N) documents, each with score 0, in corpus order.      *)
(***************************************************************************)
C4_ZeroScoreDocsKept ==
    (/\ pc = "searched"
     /\ Len(chunks) > 0
     /\ \A t \in Range(tokenize0(query)) : DocCount(t) = 0)
    => Triples(results) =
         [i \in 1..Min(topK, Len(chunks)) |->
            [sourceId |-> chunks[i].sourceId, text |-> chunks[i].text, score |-> Fix(0)]]

(***************************************************************************)
(* C5: a document that contains at least one query term is ranked strictly *)
(* above every document that contains none: wherever a document without    *)
(* any query term is returned, each document with one is returned before   *)
(* it with a greater score.                                                *)
(***************************************************************************)
C5_MatchingRankedAbove ==
    pc = "searched" =>
      LET qs     == Range(tokenize0(query))
          has(i) == DocTerms(i) \cap qs # {}
      IN  \A j \in DOMAIN results : \A a \in DOMAIN chunks, z \in DOMAIN chunks :
            (/\ results[j].sourceId = chunks[z].sourceId
             /\ ~has(z)
             /\ has(a))
            => \E i \in 1..(j - 1) :
                  /\ results[i].sourceId = chunks[a].sourceId
                  /\ ~results[i].score.nan
                  /\ ~results[j].score.nan
                  /\ results[i].score.v > results[j].score.v

(***************************************************************************)
(* C6: a query term u that occurs in no passage changes nothing: every     *)
(* document's score for the query extended with u is its score for the     *)
(* query alone, and the ranked result is the same.                         *)
(***************************************************************************)
C6_AbsentTermChangesNothing ==
    pc = "searched" =>
      \A u \in Words :
         DocCount(u) = 0 =>
           /\ searchTop(engine, model, query \o <<32>> \o u, topK) = results
           /\ searchTop(engine, model, query \o <<32>> \o u, Len(chunks))
                = searchTop(engine, model, query, Len(chunks))

(***************************************************************************)
(* C7: repeating a term in the query does not change any score: the        *)
(* result for the query with any of its terms repeated is the result for   *)
(* the query.                                                              *)
(***************************************************************************)
C7_RepeatedTermChangesNothing ==
    pc = "searched" =>
      \A t \in QueryTerms(query) :
         /\ searchTop(engine, model, query \o <<32>> \o t, topK) = results
         /\ searchTop(engine, model, query \o <<32>> \o t \o <<32>> \o t, Len(chunks))
              = searchTop(engine, model, query, Len(chunks))

\* a search whose query has a term that scores
C7_Witness ==
    /\ pc = "searched"
    /\ QueryTerms(query) # {}
    /\ Len(results) = 2
    /\ ~results[1].score.nan
    /\ results[2].score.v > 0

(***************************************************************************)
(* C8: searchTop derives its query terms with the tokenizer buildIndex     *)
(* applies to passages: a query written with punctuation or upper-case     *)
(* letters gives the result of the bare lower-case words it tokenizes to.  *)
(***************************************************************************)
C8_QueryTokenizedLikePassages ==
    pc = "searched" =>
      results = searchTop(engine, model, JoinWords(tokenize(engine, query)), topK)

(***************************************************************************)
(* Maximal runs, for the claims about tokenize.                            *)
(***************************************************************************)
\* the positions of s where a maximal run of characters satisfying T starts
RunStarts(s, T(_)) ==
    {i \in DOMAIN s : T(s[i]) /\ (i = 1 \/ ~T(s[i - 1]))}

\* the position where the run starting at i ends
RunEnd(s, T(_), i) ==
    CHOOSE j \in i..Len(s) :
        /\ \A m \in i..j : T(s[m])
        /\ j = Len(s) \/ ~T(s[j + 1])

\* out lists, in order, exactly the maximal runs of s of characters satisfying T
IsRunsOf(out, s, T(_)) ==
    LET st == RunStarts(s, T)
    IN  /\ Len(out) = Cardinality(st)
        /\ \A i \in st :
              out[Cardinality({j \in st : j <= i})] = SubSeq(s, i, RunEnd(s, T, i))

\* the ASCII letters of s lower-cased
AsciiLowered(s) ==
    [i \in DOMAIN s |-> IF IsAsciiUpper(s[i]) THEN s[i] + 32 ELSE s[i]]

\* an ASCII letter (lower-cased), an ASCII digit or a CJK Unified Ideograph
ClaimedTokenChar(c) == IsAsciiLower(c) \/ IsAsciiDigit(c) \/ IsCJK(c)

\* the characters the deployed variant keeps: part_001 also keeps U+00C0..U+024F
KeptChar(c) == ClaimedTokenChar(c) \/ (engine = 1 /\ c \in 192..591)

C13_EmptyCorpus ==
    (Built /\ chunks = <<>>) =>
      /\ model.N = 0
      /\ model.avgdl = RInt(0)
      /\ model.docs = <<>>
      /\ DOMAIN model.df = {}
      /\ pc = "searched" => results = <<>>

\* a search of the empty model with a query that has a term, for k > 0
C13_Witness ==
    /\ pc = "searched"
    /\ chunks = <<>>
    /\ QueryTerms(query) # {}
    /\ topK > 0

\* the place in model.docs of the document a result was made from
DocIndex(r) == CHOOSE p \in DOMAIN model.docs : model.docs[p].sourceId = r.sourceId

(***************************************************************************)
(* C14: ties are broken stably: two returned documents with equal scores   *)
(* stand in the result in the order they have in the model's document      *)
(* list.                                                                   *)
(***************************************************************************)
C14_StableTies ==
    pc = "searched" =>
      \A i, j \in DOMAIN results :
         (i < j /\ results[i].score = results[j].score)
            => DocIndex(results[i]) < DocIndex(results[j])

\* a result with two documents of the same score, not NaN
C14_Witness ==
    /\ pc = "searched"
    /\ \E i, j \in DOMAIN results :
          /\ i < j
          /\ ~results[i].score.nan
          /\ results[i].score = results[j].score

\* the score the variant gives document i of the model for the query
DocScore(i) ==
    IF engine = 0
    THEN bm25Score0(model, model.docs[i], tokenize0(query), {}, Fix(0))
    ELSE score1(model, model.tf[i], SumValues(model.tf[i], DOMAIN model.tf[i]),
                qterms1(query), Fix(0))

\* df[t] <= N for all t
DfAtMostN ==
    \A t \in DOMAIN model.df : model.df[t].t = "num" /\ model.df[t].n <= model.N

(***************************************************************************)
(* C15: in a model with df[t] <= N for all t, every document's score is a  *)
(* number >= 0: it is 0 when the document shares no term with the query    *)
(* and > 0 when the document contains a query term.                        *)
(***************************************************************************)
C15_ScoresNonNegative ==
    (pc = "searched" /\ DfAtMostN) =>
      \A i \in DOMAIN model.docs :
         /\ ~DocScore(i).nan
         /\ DocScore(i).v >= 0
         /\ (DocTerms(i) \cap QueryTerms(query) = {}) => DocScore(i).v = 0
         /\ (DocTerms(i) \cap QueryTerms(query) # {}) => DocScore(i).v > 0

(***************************************************************************)
(* C21: the division by avgdl is guarded: on a model with N > 0 and        *)
(* avgdl = 0 (no passage has a term) searchTop returns only finite scores, *)
(* all 0, for every query.                                                 *)
(***************************************************************************)
C21_AvgdlGuarded ==
    (pc = "searched" /\ model.N > 0 /\ model.avgdl = RInt(0)) =>
      \A i \in DOMAIN results : ~results[i].score.nan /\ results[i].score.v = 0

\* the number of times t stands among the tokens of passage i
Occurrences(i, t) ==
    LET toks == tokenize(engine, chunks[i].text)
    IN  Cardinality({p \in DOMAIN toks : toks[p] = t})

\* the number of tokens of passage i
PassageLen(i) == Len(tokenize(engine, chunks[i].text))

\* avgdl, with 1 in the place of 0
ClaimAvgdlOr1 ==
    IF TokenTotal = 0 \/ Len(chunks) = 0 THEN RInt(1) ELSE Rat(TokenTotal, Len(chunks))

\* ln((N - n + 0.5)/(n + 0.5) + 1) * f * (k1 + 1) / (f + k1 * (1 - b + b * len/avgdl_or_1))
\* with k1 = 1.5 and b = 0.75, in units of 1/Scale
ClaimTerm(n, f, len) ==
    LET N   == Len(chunks)
        idf == MathLog(RAdd(RDiv(Rat(2 * (N - n) + 1, 2), Rat(2 * n + 1, 2)), RInt(1)))
        w   == RDiv(RMul(RInt(f), Rat(5, 2)),
                    RAdd(RInt(f),
                         RMul(Rat(3, 2),
                              RAdd(Rat(1, 4),
                                   RMul(Rat(3, 4), RDiv(RInt(len), ClaimAvgdlOr1))))))
    IN  (idf * w.n) \div w.d

RECURSIVE SumOver(_, _)
\* the sum of ClaimTerm over the terms ts for passage i
SumOver(ts, i) ==
    IF ts = {} THEN 0
    ELSE LET t == CHOOSE x \in ts : TRUE
         IN  ClaimTerm(DocCount(t), Occurrences(i, t), PassageLen(i)) + SumOver(ts \ {t}, i)

\* the score the formula gives passage i for the query
ClaimScore(i) ==
    SumOver({t \in QueryTerms(query) : DocCount(t) > 0 /\ Occurrences(i, t) > 0}, i)

(***************************************************************************)
(* C22: the score of every document is the sum, over the distinct query    *)
(* terms t with df[t] > 0 and f_t > 0 in the document, of                  *)
(* ln((N - df[t] + 0.5)/(df[t] + 0.5) + 1) * f_t * (k1 + 1) /              *)
(* (f_t + k1 * (1 - b + b * len/avgdl_or_1)), with k1 = 1.5 and b = 0.75.  *)
(***************************************************************************)
C22_ScoreIsTheFormula ==
    pc = "searched" =>
      \A i \in DOMAIN model.docs : DocScore(i) = Fix(ClaimScore(i))

\* a query of lower-case ASCII letters and digits in words separated by
\* single spaces
SimpleQuery(q) ==
    /\ \A p \in DOMAIN q : IsAsciiLower(q[p]) \/ IsAsciiDigit(q[p]) \/ q[p] = 32
    /\ q # <<>> => (q[1] # 32 /\ q[Len(q)] # 32)
    /\ \A p \in DOMAIN q : (p > 1 /\ q[p] = 32) => q[p - 1] # 32

\* the score part_000 gives passage i of its own model, and part_001 of its
Score0(i) ==
    LET m0 == buildIndex0(chunks)
    IN  bm25Score0(m0, m0.docs[i], tokenize0(query), {}, Fix(0))
Score1(i) ==
    LET m1 == buildIndex1(chunks)
    IN  score1(m1, m1.tf[i], SumValues(m1.tf[i], DOMAIN m1.tf[i]), qterms1(query), Fix(0))

(***************************************************************************)
(* C29: the two variants agree: for every passage list and every query of  *)
(* lower-case ASCII words separated by single spaces they give every       *)
(* document the same score, the result of part_001 is the result of        *)
(* part_000 without its zero-score entries, cut to k, and the length       *)
(* part_001 sums from the term counts is the len part_000 stores.          *)
(***************************************************************************)
C29_VariantsAgree ==
    (pc = "searched" /\ SimpleQuery(query)) =>
      LET m0   == buildIndex0(chunks)
          m1   == buildIndex1(chunks)
          all0 == searchTop0(m0, query, Len(chunks))
      IN  /\ \A i \in DOMAIN chunks :
                /\ ~Score0(i).nan
                /\ Score0(i) = Score1(i)
                /\ SumValues(m1.tf[i], DOMAIN m1.tf[i]) = m0.docs[i].len
          /\ Triples(searchTop1(m1, query, topK))
                = slice(SelectSeq(Triples(all0), LAMBDA r : r.score # Fix(0)), topK)

\* the tokens the variant takes from the query
QueryTokens == IF engine = 0 THEN tokenize0(query) ELSE qterms1(query)

\* the score the variant gives document i of the model for the tokens qts
DocScoreOf(i, qts) ==
    IF engine = 0
    THEN bm25Score0(model, model.docs[i], qts, {}, Fix(0))
    ELSE score1(model, model.tf[i], SumValues(model.tf[i], DOMAIN model.tf[i]),
                qts, Fix(0))

\* the counts of document i of the model
CountsOf(i) == IF engine = 0 THEN model.docs[i].freq ELSE model.tf[i]

(***************************************************************************)
(* C30: for every term the tokenizer can produce, a name every object      *)
(* inherits ("constructor") included, freq[t] is the integer number of     *)
(* occurrences of t in the passage and df[t] an integer document count,    *)
(* and a query term that no passage holds leaves every score a finite      *)
(* number, the score without that term.                                    *)
(***************************************************************************)
C30_InheritedNamesAreTerms ==
    Built =>
      /\ \A i \in DOMAIN chunks : \A t \in DocTerms(i) :
            /\ t \in DOMAIN CountsOf(i)
            /\ CountsOf(i)[t] = Num(Occurrences(i, t))
      /\ \A t \in DOMAIN model.df : model.df[t] = Num(DocCount(t))
      /\ pc = "searched" =>
            \A i \in DOMAIN chunks :
               /\ ~DocScoreOf(i, QueryTokens).nan
               /\ DocScoreOf(i, QueryTokens)
                     = DocScoreOf(i, SelectSeq(QueryTokens, LAMBDA t : DocCount(t) > 0))

(***************************************************************************)
(* src/server.js: the files under storage/ and the request handlers.       *)
(***************************************************************************)
RECURSIVE QuoteChars(_)
\* the characters of a JSON string literal: " and \ behind a backslash, a
\* tab as \t, every other character of the texts here as it is
QuoteChars(s) ==
    IF s = <<>> THEN <<>>
    ELSE (CASE Head(s) = 34 -> <<92, 34>>
            [] Head(s) = 92 -> <<92, 92>>
            [] Head(s) = 9  -> <<92, 116>>
            [] OTHER        -> <<Head(s)>>) \o QuoteChars(Tail(s))

RECURSIVE UnquoteChars(_)
\* the string a JSON string literal stands for
UnquoteChars(t) ==
    IF t = <<>> THEN <<>>
    ELSE IF Head(t) = 92
         THEN <<(IF t[2] = 116 THEN 9 ELSE t[2])>> \o UnquoteChars(Tail(Tail(t)))
         ELSE <<Head(t)>> \o UnquoteChars(Tail(t))

\* JSON.parse(JSON.stringify(s)) for a string s
JsonString(s) == UnquoteChars(QuoteChars(s))

RECURSIVE Digits(_)
\* the decimal digits of an integer n >= 0
Digits(n) == IF n < 10 THEN <<48 + n>> ELSE Append(Digits(n \div 10), 48 + (n % 10))

RECURSIVE ParseDigits(_, _)
ParseDigits(ds, acc) ==
    IF ds = <<>> THEN acc ELSE ParseDigits(Tail(ds), 10 * acc + (Head(ds) - 48))

\* JSON.parse(JSON.stringify(n)) for an integer n >= 0
JsonInt(n) == ParseDigits(Digits(n), 0)

\* JSON.parse(JSON.stringify(v)) for a value of an object of counts
JsonValue(v) == IF v.t = "num" THEN Num(JsonInt(v.n)) ELSE v

\* JSON.parse(JSON.stringify(obj)) on an object that loses its entries, as
\* a Map does
JsonObjMutant(obj) == EmptyObj

\* JSON.parse(JSON.stringify(obj)) on an object of counts: own properties
\* holding numbers and strings come back, others are left out
JsonObj(obj) ==
    LET keep  == {x \in DOMAIN obj : obj[x].t \in {"num", "str"}}
        pairs == {<<JsonString(x), JsonValue(obj[x])>> : x \in keep}
    IN  [x \in {pr[1] : pr \in pairs} |-> (CHOOSE pr \in pairs : pr[1] = x)[2]]

\* JSON.parse(JSON.stringify(doc)) for an entry of model.docs; a sourceId
\* and a passage id are uuid strings, which hold no character that is
\* escaped
JsonDoc(doc) ==
    IF engine = 0
    THEN [id       |-> doc.id,
          sourceId |-> doc.sourceId,
          text     |-> JsonString(doc.text),
          freq     |-> JsonObj(doc.freq),
          len      |-> JsonInt(doc.len)]
    ELSE [id       |-> JsonInt(doc.id),
          sourceId |-> doc.sourceId,
          text     |-> JsonString(doc.text)]

\* JSON.parse(JSON.stringify(model)): what a reader of bm25.json gets.
\* avgdl is a double, and the text Number::toString gives for a double reads
\* back as the same double.
JsonModel(m) ==
    IF engine = 0
    THEN [docs  |-> [i \in DOMAIN m.docs |-> JsonDoc(m.docs[i])],
          df    |-> JsonObj(m.df),
          N     |-> JsonInt(m.N),
          avgdl |-> m.avgdl]
    ELSE [docs  |-> [i \in DOMAIN m.docs |-> JsonDoc(m.docs[i])],
          df    |-> JsonObj(m.df),
          tf    |-> [i \in DOMAIN m.tf |-> JsonObj(m.tf[i])],
          N     |-> JsonInt(m.N),
          avgdl |-> m.avgdl]

\* function rebuildBm25AndSave(chunksArray) without its write: bm25.json stays
rebuildBm25AndSaveMutant(chunksArray) == bmFile

\* function rebuildBm25AndSave(chunksArray): the new content of bm25.json
rebuildBm25AndSave(chunksArray) == JsonModel(buildIndex(engine, chunksArray))

(***************************************************************************)
(* Specification of a model's life: built, built again from the same       *)
(* passage list, written to bm25.json, read back and searched.             *)
(***************************************************************************)
\* passages whose text holds a quote, a backslash, a tab, a letter outside
\* ASCII: a"b, a\b, a<tab>b, e-acute a
SpecialTexts == { <<97, 34, 98>>, <<97, 92, 98>>, <<97, 9, 98>>, <<233, 32, 97>> }

PersistCorpora ==
    Corpora \cup {<<[id |-> 1, sourceId |-> 1, text |-> t]>> : t \in SpecialTexts}

PersistInit ==
    /\ engine \in Engines
    /\ SrvIdle
    /\ pc = "start"
    /\ chunks \in PersistCorpora
    /\ model = <<>>
    /\ query = <<>>
    /\ topK = 0
    /\ results = <<>>
    /\ model2 = <<>>
    /\ results2 = <<>>
    /\ tokIn = <<>>
    /\ tokOut = <<>>

\* a second buildIndex(chunks) on the passage list of the first
Rebuild ==
    /\ pc = "built"
    /\ model2' = buildIndex(engine, chunks)
    /\ pc' = "rebuilt"
    /\ UNCHANGED <<engine, tokIn, tokOut, chunks, model, query, topK, results, results2,
                   srvVars>>

\* fs.writeFileSync(bmPath, JSON.stringify(model)), then what /api/ask does:
\* JSON.parse(fs.readFileSync(bmPath)) and searchTop on the model read
Reload ==
    /\ pc = "rebuilt"
    /\ bmFile' = JsonModel(model)
    /\ \E q \in QueryPool, k \in 0..MaxK :
          /\ query' = q
          /\ topK' = k
          /\ results' = searchTop(engine, model, q, k)
          /\ results2' = searchTop(engine, bmFile', q, k)
    /\ pc' = "reloaded"
    /\ UNCHANGED <<engine, tokIn, tokOut, chunks, model, model2, idxFile, nextId, inflight,
                   askWait, published, deleted, last, gate, lastAuth, unauth>>

PersistNext == BuildIndex \/ Rebuild \/ Reload

SpecPersist == PersistInit /\ [][PersistNext]_vars

C12_JsonRoundTripLossless ==
    pc = "reloaded" =>
      /\ results2 = results
      /\ bmFile.N = model.N
      /\ bmFile.avgdl = model.avgdl
      /\ bmFile.df = model.df
      /\ bmFile.docs = model.docs
      /\ engine = 1 => bmFile.tf = model.tf

\* a search with results on a model read back, of a passage whose text holds
\* a quote
C12_Witness ==
    /\ pc = "reloaded"
    /\ results2 # <<>>
    /\ \E i \in DOMAIN chunks : 34 \in Range(chunks[i].text)

RECURSIVE CollapseWs(_, _)
\* text.replace(/\s+/g, " ")
CollapseWs(s, inRun) ==
    IF s = <<>> THEN <<>>
    ELSE IF IsWhiteSpace(Head(s))
         THEN (IF inRun THEN <<>> ELSE <<32>>) \o CollapseWs(Tail(s), TRUE)
         ELSE <<Head(s)>> \o CollapseWs(Tail(s), FALSE)

RECURSIVE TrimStart(_)
TrimStart(s) ==
    IF s # <<>> /\ IsWhiteSpace(Head(s)) THEN TrimStart(Tail(s)) ELSE s

RECURSIVE TrimEnd(_)
TrimEnd(s) ==
    IF s # <<>> /\ IsWhiteSpace(s[Len(s)]) THEN TrimEnd(SubSeq(s, 1, Len(s) - 1)) ELSE s

\* String.prototype.trim removing nothing
trimMutant(s) == s

\* String.prototype.trim
trim(s) == TrimEnd(TrimStart(s))

RECURSIVE SplitSpace(_, _)
\* clean.split(" "): the pieces between the single spaces
SplitSpace(s, cur) ==
    IF s = <<>> THEN <<cur>>
    ELSE IF Head(s) = 32 THEN <<cur>> \o SplitSpace(Tail(s), <<>>)
    ELSE SplitSpace(Tail(s), Append(cur, Head(s)))

\* the loop of chunkTextToPassages without the flush of buf after it
ChunkLoopMutant(words, buf, out, maxLen) == out

RECURSIVE ChunkLoop(_, _, _, _)
\* the loop of chunkTextToPassages over the words, and the flush after it
ChunkLoop(words, buf, out, maxLen) ==
    IF words = <<>>
    THEN (IF buf # <<>> THEN Append(out, JoinWords(buf)) ELSE out)
    ELSE LET nbuf == Append(buf, Head(words))
         IN  IF Len(JoinWords(nbuf)) > maxLen
             THEN ChunkLoop(Tail(words), <<>>, Append(out, JoinWords(nbuf)), maxLen)
             ELSE ChunkLoop(Tail(words), nbuf, out, maxLen)

\* function chunkTextToPassages(text, sourceId, maxLen = 800); the uuid of
\* passage i of a source is the pair <<sourceId, i>>
chunkTextToPassages(text, sourceId, maxLen) ==
    LET clean == trim(CollapseWs(text, FALSE))
        out   == ChunkLoop(SplitSpace(clean, <<>>), <<>>, <<>>, maxLen)
    IN  [i \in DOMAIN out |-> [id |-> <<sourceId, i>>, sourceId |-> sourceId, text |-> out[i]]]

\* the default of maxLen
DefaultMaxLen == 800

\* uploads ever started
MaxUploads == 2

\* what the extraction of an uploaded file can give: "", " ", "a", "b a",
\* "constructor"
ExtractPool == { <<>>, <<32>>, W_a, JoinWords(<<W_b, W_a>>), Ctor }

\* the queries of /api/ask: "", " ", "a", "b", "A?", "constructor"
AskPool == { <<>>, <<32>>, W_a, W_b, <<65, 63>>, Ctor }

\* req.body.title
TitlePool == {"", " ", "T"}

\* path.extname(originalName).toLowerCase()
ExtPool == {".pdf", ".docx", ".png"}

\* const ADMIN_SECRET = process.env.ADMIN_SECRET || "admin"
ADMIN_SECRET == "admin"

\* req.header("x-admin-secret"): missing, wrong, right
SecretPool == {"", "guess", ADMIN_SECRET}

\* the score gate of /api/ask: 0.5 in server.js, 0.2 in the LLM_MODEL variants
Gates == {Rat(1, 2), Rat(1, 5)}

Response(op, status, hits, answer) ==
    [op |-> op, status |-> status, hits |-> hits, answer |-> answer]

SrvInit ==
    /\ engine \in Engines
    /\ pc = "server"
    /\ tokIn = <<>>
    /\ tokOut = <<>>
    /\ chunks = <<>>
    /\ model = <<>>
    /\ query = <<>>
    /\ topK = 0
    /\ results = <<>>
    /\ model2 = <<>>
    /\ results2 = <<>>
    /\ idxFile = [docs |-> <<>>, chunks |-> <<>>]
    /\ bmFile = JsonModel(buildIndex(engine, <<>>))
    /\ nextId = 1
    /\ inflight = {}
    /\ askWait = 0
    /\ published = {}
    /\ deleted = {}
    /\ last = Response("none", 0, <<>>, "")
    /\ gate \in Gates
    /\ lastAuth = FALSE
    /\ unauth = {}

\* the early returns of POST /api/upload: the multer error, no file, no
\* title, an extension that is neither .pdf nor .docx
UploadRejected(r) ==
    r.err \/ ~r.hasFile \/ r.title \in {"", " "} \/ r.ext \notin {".pdf", ".docx"}

\* what an upload request can carry besides the x-admin-secret header
UploadInputs == [err : BOOLEAN, hasFile : BOOLEAN, title : TitlePool, ext : ExtPool]

\* POST /api/upload up to the await of the extraction: the early returns, or
\* a new sourceId and the extraction started.  The x-admin-secret header is
\* not read.
UploadBegin ==
    /\ pc = "server"
    /\ \E givenSecret \in SecretPool :
          /\ lastAuth' = (givenSecret = ADMIN_SECRET)
          /\ \/ /\ {r \in UploadInputs : UploadRejected(r)} # {}
                /\ last' = Response("upload", 400, <<>>, "")
                /\ UNCHANGED <<nextId, inflight, unauth>>
             \/ /\ {r \in UploadInputs : ~UploadRejected(r)} # {}
                /\ nextId <= MaxUploads
                /\ nextId' = nextId + 1
                /\ inflight' = inflight \cup {nextId}
                /\ unauth' = IF givenSecret = ADMIN_SECRET THEN unauth
                             ELSE unauth \cup {nextId}
                /\ last' = Response("uploadBegin", 0, <<>>, "")
    /\ UNCHANGED <<engine, pureVars, idxFile, bmFile, askWait, published, deleted, gate>>

\* idx.docs.push({...}); idx.chunks.push(...passages) on an index read before
\* any other request wrote: the empty one
PushUploadMutant(idx, sourceId, passages) ==
    [docs   |-> <<[sourceId |-> sourceId, title |-> "T", chunks |-> Len(passages)]>>,
     chunks |-> passages]

\* idx.docs.push({...}); idx.chunks.push(...passages)
PushUpload(idx, sourceId, passages) ==
    [docs   |-> Append(idx.docs,
                       [sourceId |-> sourceId, title |-> "T", chunks |-> Len(passages)]),
     chunks |-> idx.chunks \o passages]

\* POST /api/upload from the end of the extraction: an exception, the empty
\* text, or the append to index.json and the rebuild of bm25.json
\* the extraction produced no text besides white space
BlankText(s) == \A i \in DOMAIN s : IsWhiteSpace(s[i])

\* what the response of an upload is recorded with: the kind of text extracted
TextKind(s) == IF BlankText(s) THEN "blank text" ELSE "text"

UploadFinish ==
    /\ pc = "server"
    /\ \E sourceId \in inflight, throws \in BOOLEAN, textContent \in ExtractPool :
          /\ inflight' = inflight \ {sourceId}
          /\ unauth' = unauth \ {sourceId}
          /\ lastAuth' = (sourceId \notin unauth)
          /\ IF throws
             THEN /\ last' = Response("upload", 500, <<>>, "")
                  /\ UNCHANGED <<idxFile, bmFile, published>>
             ELSE IF trim(textContent) = <<>>
             THEN /\ last' = Response("upload", 400, <<>>, TextKind(textContent))
                  /\ UNCHANGED <<idxFile, bmFile, published>>
             ELSE LET passages == chunkTextToPassages(textContent, sourceId, DefaultMaxLen)
                      idx      == PushUpload(idxFile, sourceId, passages)
                  IN  /\ idxFile' = idx
                      /\ bmFile' = rebuildBm25AndSave(idx.chunks)
                      /\ published' = published \cup {sourceId}
                      /\ last' = Response("upload", 200, <<>>, TextKind(textContent))
    /\ UNCHANGED <<engine, pureVars, nextId, askWait, deleted, gate>>

\* idx.chunks.filter((c) => c.sourceId !== id) with the filter left out
FilterChunksMutant(cs, id) == cs

\* idx.chunks.filter((c) => c.sourceId !== id)
FilterChunks(cs, id) == SelectSeq(cs, LAMBDA c : c.sourceId # id)

\* idx.docs.filter((d) => d.sourceId !== id) with the filter left out
FilterDocsMutant(ds, id) == ds

\* idx.docs.filter((d) => d.sourceId !== id)
FilterDocs(ds, id) == SelectSeq(ds, LAMBDA d : d.sourceId # id)

\* !givenSecret || givenSecret !== ADMIN_SECRET, with the test of the missing
\* header turned round
ForbiddenMutant(givenSecret) == givenSecret # "" /\ givenSecret # ADMIN_SECRET

\* !givenSecret || givenSecret !== ADMIN_SECRET
Forbidden(givenSecret) == givenSecret = "" \/ givenSecret # ADMIN_SECRET

\* DELETE /api/source/:id.  A client can name a sourceId a response has given
\* it, or a string that is no sourceId (0): uuidv4() values cannot be guessed.
DeleteSource ==
    /\ pc = "server"
    /\ \E id \in published \cup {0}, givenSecret \in SecretPool :
          /\ lastAuth' = (givenSecret = ADMIN_SECRET)
          /\ IF Forbidden(givenSecret)
                THEN /\ last' = Response("delete", 403, <<>>, "")
                  /\ UNCHANGED <<idxFile, bmFile, deleted>>
             ELSE LET idx == [docs   |-> FilterDocs(idxFile.docs, id),
                              chunks |-> FilterChunks(idxFile.chunks, id)]
                  IN  /\ idxFile' = idx
                      /\ bmFile' = rebuildBm25AndSave(idx.chunks)
                      /\ deleted' = deleted \cup {id}
                      /\ last' = Response("delete", 200, <<>>,
                                           <<Len(idxFile.docs) - Len(idx.docs),
                                             Len(idxFile.chunks) - Len(idx.chunks)>>)
    /\ UNCHANGED <<engine, pureVars, nextId, inflight, askWait, published, gate, unauth>>

\* hits[0].score < 0.5 with the comparison removed
BelowGateMutant(score, g) == FALSE

\* hits[0].score < 0.5 (bestScore < 0.2): false for NaN
BelowGate(score, g) == ~score.nan /\ score.v * g.d < Scale * g.n

\* const fallback = "Sorry, I am unable to assist you ...": the sentence,
\* written by its first word
fallback == <<83, 111, 114, 114, 121>>

\* a property of the proxy's JSON that may be absent: [def, s]
NoProp == [def |-> FALSE, s |-> <<>>]
Prop(s) == [def |-> TRUE, s |-> s]

\* what the LLM proxy can answer: llmResp.ok, whether its body parses, and the
\* properties choices[0].message.content and text of the body
LlmPool == [ok : BOOLEAN, parses : BOOLEAN,
            content : {NoProp, Prop(<<32>>), Prop(W_a)},
            text : {NoProp, Prop(<<32, 98>>)}]

\* v?.trim?.(): the trimmed string, or undefined (falsy, as "" is)
TrimProp(v) == IF v.def THEN trim(v.s) ELSE <<>>

\* llmData?.choices?.[0]?.message?.content?.trim?.() without the two || operands
finalAnswerMutant(llmData) == TrimProp(llmData.content)

\* llmData?.choices?.[0]?.message?.content?.trim?.() || llmData?.text?.trim?.() || fallback
finalAnswer(llmData) ==
    IF TrimProp(llmData.content) # <<>> THEN TrimProp(llmData.content)
    ELSE IF TrimProp(llmData.text) # <<>> THEN TrimProp(llmData.text)
    ELSE fallback

\* POST /api/ask up to the await of the LLM proxy: the fallback answers, or
\* the hits and the prompt sent; r is the response and the number of proxy
\* calls awaited
AskSearch ==
    /\ pc = "server"
    /\ askWait = 0
    /\ \E r \in {IF outcome = "throws"
                 THEN <<Response("ask", 500, <<>>, fallback), 0>>
                 ELSE IF trim(q) = <<>> \/ idxFile.chunks = <<>> \/ outcome = "readError"
                 THEN <<Response("ask", 200, <<>>, fallback), 0>>
                 ELSE LET hits == searchTop(engine, bmFile, q, 5)
                      IN  IF hits = <<>> \/ BelowGate(hits[1].score, gate)
                          THEN <<Response("ask", 200, hits, fallback), 0>>
                          ELSE <<Response("ask", 0, hits, <<>>), 1>>
                   : q \in AskPool, outcome \in {"runs", "readError", "throws"}} :
          /\ last' = r[1]
          /\ askWait' = r[2]
    /\ lastAuth' = FALSE
    /\ UNCHANGED <<engine, pureVars, idxFile, bmFile, nextId, inflight, published, deleted,
                   gate, unauth>>

\* POST /api/ask from the answer of the LLM proxy
AskReply ==
    /\ pc = "server"
    /\ askWait = 1
    /\ askWait' = 0
    /\ last' \in {IF throws THEN Response("askReply", 500, <<>>, fallback)
                  ELSE IF ~llm.ok THEN Response("askReply", 200, <<>>, fallback)
                  ELSE IF ~llm.parses
                       THEN Response("askReply", 200, <<>>, finalAnswer([content |-> NoProp, text |-> NoProp]))
                  ELSE Response("askReply", 200, <<>>, finalAnswer(llm))
                    : throws \in BOOLEAN, llm \in LlmPool}
    /\ UNCHANGED <<engine, pureVars, idxFile, bmFile, nextId, inflight, published, deleted,
                   gate, unauth>>
    /\ lastAuth' = FALSE

SrvNext == UploadBegin \/ UploadFinish \/ DeleteSource \/ AskSearch \/ AskReply

SpecServer == SrvInit /\ [][SrvNext]_vars

\* ---------------------------------------------------------------------------
\* src/server.js: the process stopping between saveIndex and rebuildBm25AndSave,
\* and the start-up that follows
\* ---------------------------------------------------------------------------

\* what a stop leaves behind: no handler is running, nothing is awaited
Stopped ==
    /\ pc' = "down"
    /\ inflight' = {}
    /\ unauth' = {}
    /\ askWait' = 0
    /\ lastAuth' = FALSE
    /\ last' = Response("stop", 0, <<>>, "")

\* POST /api/upload stopped after saveIndex(idx), before rebuildBm25AndSave;
\* the new sourceId is listed by GET /api/sources from then on
StopInUpload ==
    /\ pc = "server"
    /\ \E sourceId \in inflight, textContent \in ExtractPool :
          /\ trim(textContent) # <<>>
          /\ idxFile' = PushUpload(idxFile, sourceId,
                                   chunkTextToPassages(textContent, sourceId, DefaultMaxLen))
          /\ published' = published \cup {sourceId}
    /\ Stopped
    /\ UNCHANGED <<engine, tokIn, tokOut, chunks, model, query, topK, results,
                   model2, results2, bmFile, nextId, deleted, gate>>

\* DELETE /api/sources/:id stopped after saveIndex(idx), before rebuildBm25AndSave
StopInDelete ==
    /\ pc = "server"
    /\ \E id \in published :
          /\ idxFile' = [docs   |-> FilterDocs(idxFile.docs, id),
                         chunks |-> FilterChunks(idxFile.chunks, id)]
          /\ deleted' = deleted \cup {id}
    /\ Stopped
    /\ UNCHANGED <<engine, tokIn, tokOut, chunks, model, query, topK, results,
                   model2, results2, bmFile, nextId, published, gate>>

\* the start of the process: both files exist, so neither existsSync branch
\* writes; index.json and bm25.json are used as they were left
Startup ==
    /\ pc = "down"
    /\ pc' = "server"
    /\ last' = Response("startup", 0, <<>>, "")
    /\ UNCHANGED <<engine, tokIn, tokOut, chunks, model, query, topK, results,
                   model2, results2, idxFile, bmFile, nextId, inflight, askWait,
                   published, deleted, gate, lastAuth, unauth>>

BootNext == SrvNext \/ StopInUpload \/ StopInDelete \/ Startup

SpecBoot == SrvInit /\ [][BootNext]_vars

(***************************************************************************)
(* C10: after an authorised DELETE /api/source/:id has completed, no later *)
(* /api/ask search result carries that sourceId, whatever uploads, deletes *)
(* and asks follow.                                                        *)
(***************************************************************************)
C10_DeletedSourceNeverReturned ==
    last.op = "ask" =>
      \A i \in DOMAIN last.hits : last.hits[i].sourceId \notin deleted

\* an ask that returns hits after an uploaded source was deleted
C10_Witness ==
    /\ last.op = "ask"
    /\ last.hits # <<>>
    /\ deleted \cap published # {}

\* the sourceIds of the passages, and of the documents, of index.json
ChunkSources == {idxFile.chunks[i].sourceId : i \in DOMAIN idxFile.chunks}
DocSources   == {idxFile.docs[i].sourceId : i \in DOMAIN idxFile.docs}

(***************************************************************************)
(* C16: single writer: whatever the interleaving of uploads and deletes,   *)
(* no update is lost: index.json holds exactly the passages of every       *)
(* source whose upload succeeded and that was not deleted.                 *)
(***************************************************************************)
C16_NoLostUpdate ==
    pc = "server" =>
      /\ ChunkSources = published \ deleted
      /\ DocSources = published \ deleted
      /\ \A j \in DOMAIN idxFile.docs :
            idxFile.docs[j].chunks =
               Cardinality({i \in DOMAIN idxFile.chunks :
                               idxFile.chunks[i].sourceId = idxFile.docs[j].sourceId})

\* an upload that ends well after a delete has removed a source, while
\* another source is still in the index
C16_Witness ==
    /\ last.op = "upload"
    /\ last.status = 200
    /\ deleted \cap published # {}
    /\ Cardinality(ChunkSources) >= 1

(***************************************************************************)
(* C17: a reader sees one corpus state: the documents of the model in      *)
(* bm25.json are the passages of index.json, in every state an /api/ask    *)
(* can read the two files in.                                              *)
(***************************************************************************)
C17_SnapshotConsistent ==
    pc = "server" =>
      /\ bmFile.N = Len(idxFile.chunks)
      /\ Len(bmFile.docs) = Len(idxFile.chunks)
      /\ \A i \in DOMAIN idxFile.chunks :
            /\ bmFile.docs[i].sourceId = idxFile.chunks[i].sourceId
            /\ bmFile.docs[i].text = idxFile.chunks[i].text

\* an /api/ask that searched a corpus with passages while an upload was
\* awaiting its extraction
C17_Witness ==
    /\ last.op = "ask"
    /\ last.hits # <<>>
    /\ inflight # {}

(***************************************************************************)
(* C18: without a good match /api/ask answers with the fallback: when      *)
(* searchTop returns no hit, or the top hit's score is below the gate, the *)
(* answer is the fallback text and no request goes to the LLM proxy.       *)
(***************************************************************************)
C18_FallbackWithoutGoodMatch ==
    (/\ last.op = "ask"
     /\ \/ last.hits = <<>>
        \/ /\ ~last.hits[1].score.nan
           /\ last.hits[1].score.v * gate.d < Scale * gate.n)
      => /\ last.answer = fallback
         /\ askWait = 0

\* hits whose best score is below the gate 0.2
C18_Witness ==
    /\ last.op = "ask"
    /\ last.hits # <<>>
    /\ gate = Rat(1, 5)
    /\ last.answer = fallback

(***************************************************************************)
(* C19: an upload needs the admin secret: a POST /api/upload without a     *)
(* secret equal to ADMIN_SECRET is rejected and leaves index.json and      *)
(* bm25.json as they were.                                                 *)
(***************************************************************************)
C19_UploadRequiresSecret ==
    [][(last'.op = "upload" /\ ~lastAuth')
          => /\ last'.status # 200
             /\ idxFile' = idxFile
             /\ bmFile' = bmFile]_vars

C23_BootRebuild ==
    (pc = "server" /\ last.op = "startup")
        => bmFile = JsonModel(buildIndex(engine, idxFile.chunks))

(***************************************************************************)
(* C24: an upload that is rejected (upload error, no file, blank title,    *)
(* unsupported extension, extracted text blank) is answered with an error  *)
(* status and leaves index.json and bm25.json as they were; an upload      *)
(* whose extracted text is blank is rejected; no document entry and no     *)
(* chunk is persisted for a sourceId whose upload was not answered 200.    *)
(***************************************************************************)
C24_RejectedUploadPersistsNothing ==
    [][/\ (last'.op = "upload" /\ last'.answer = "blank text") => last'.status = 400
       /\ (last'.op = "upload" /\ last'.status # 200)
             => /\ last'.status \in {400, 500}
                /\ idxFile' = idxFile
                /\ bmFile' = bmFile
       /\ (DocSources' \cup ChunkSources') \subseteq published']_vars

\* an upload whose file held only white space, rejected while index.json
\* holds the passages of an earlier upload
C24_Witness ==
    /\ last.op = "upload"
    /\ last.answer = "blank text"
    /\ last.status = 400
    /\ idxFile.chunks # <<>>
    /\ nextId > 2

CountSource(seq, id) == Cardinality({i \in DOMAIN seq : seq[i].sourceId = id})

\* the entries of a list of index.json that do not carry the sourceId id, in
\* their order
Others(seq, id) == SelectSeq(seq, LAMBDA x : x.sourceId # id)

C27_IndexConsistent ==
    /\ \A i \in DOMAIN idxFile.chunks :
          CountSource(idxFile.docs, idxFile.chunks[i].sourceId) = 1
    /\ \A j \in DOMAIN idxFile.docs :
          /\ CountSource(idxFile.chunks, idxFile.docs[j].sourceId) >= 1
          /\ idxFile.docs[j].chunks = CountSource(idxFile.chunks, idxFile.docs[j].sourceId)

\* index.json with the entries of one source after another source was
\* uploaded and deleted
C27_Witness ==
    /\ Len(idxFile.docs) = 1
    /\ Len(idxFile.chunks) = 1
    /\ deleted \cap published # {}
    /\ last.op = "delete"
    /\ last.status = 200

(***************************************************************************)
(* C28: every passage that /api/ask sends to the LLM as guideline evidence *)
(* has a strictly positive BM25 score for the query: a passage that shares *)
(* no term with the query is never sent.                                   *)
(***************************************************************************)
C28_EvidenceScoresPositive ==
    (last.op = "ask" /\ last.status = 0)
        => \A i \in DOMAIN last.hits :
              /\ ~last.hits[i].score.nan
              /\ last.hits[i].score.v > 0

=============================================================================
